---------------------------- MODULE Spec2Model ----------------------------
(***************************************************************************)
(* JSON-Beautify (jb): the streaming decode / re-encode / highlight loop   *)
(* of main.go.  A text is a sequence of bytes; a byte is written as a      *)
(* one-character string, the escape byte 0x1b as "ESC".                    *)
(***************************************************************************)
EXTENDS Integers, Sequences, FiniteSets, TLC

(***************************************************************************)
(* Bytes                                                                   *)
(***************************************************************************)
ESC == "ESC"
QUOTE == "\""
BSLASH == "\\"

Digits == {"0", "1", "2", "3", "4", "5", "6", "7", "8", "9"}
Digits19 == Digits \ {"0"}
HexDigits == Digits \cup {"a", "b", "c", "d", "e", "f", "A", "B", "C", "D", "E", "F"}

\* encoding/json isSpace: space, tab, carriage return, newline.
isSpace(c) == c \in {" ", "\t", "\r", "\n"}

\* Bytes below 0x20, which may not appear raw inside a string literal.
isControl(c) == c \in {"\t", "\r", "\n", "\f", ESC}

\* regexp \s: [\t\n\f\r ].
reSpace(c) == c \in {" ", "\t", "\n", "\f", "\r"}

RECURSIVE Repeat(_, _)
Repeat(s, n) == IF n <= 0 THEN <<>> ELSE s \o Repeat(s, n - 1)

\* F applied to the value of e: e is computed once, whatever use F makes of it.
Bind(e, F(_)) == CHOOSE r \in {F(x) : x \in {e}} : TRUE

\* s[from..] starts with the bytes of pat.
StartsWithAt(s, from, pat) ==
    /\ from + Len(pat) - 1 <= Len(s)
    /\ \A k \in 1..Len(pat) : s[from + k - 1] = pat[k]

(***************************************************************************)
(* ANSI color codes (main.go, const block)                                 *)
(***************************************************************************)
ColorReset == <<ESC, "[", "0", "m">>
ColorRed == <<ESC, "[", "3", "1", "m">>
ColorGreen == <<ESC, "[", "3", "2", "m">>
ColorYellow == <<ESC, "[", "3", "3", "m">>
ColorBlue == <<ESC, "[", "3", "4", "m">>
ColorPurple == <<ESC, "[", "3", "5", "m">>
ColorBold == <<ESC, "[", "1", "m">>

(***************************************************************************)
(* The encoding/json scanner: one step per byte, a stack of open           *)
(* containers, and the opcode each step reports.                           *)
(***************************************************************************)
ScanReset == [step |-> "stateBeginValue", parseState |-> <<>>]

ScanErr(s) == [s |-> [s EXCEPT !.step = "stateError"], op |-> "scanError"]

Goto(s, st, op) == [s |-> [s EXCEPT !.step = st], op |-> op]

Push(s, st, ps, op) ==
    [s |-> [step |-> st, parseState |-> Append(s.parseState, ps)], op |-> op]

\* popParseState
Pop(s, op) ==
    LET n == Len(s.parseState) - 1
    IN  [s |-> [step |-> IF n = 0 THEN "stateEndTop" ELSE "stateEndValue",
                parseState |-> SubSeq(s.parseState, 1, n)],
         op |-> op]

SetTop(s, ps) ==
    [s EXCEPT !.parseState[Len(s.parseState)] = ps]

stateEndTop(s, c) ==
    IF isSpace(c) THEN Goto(s, "stateEndTop", "scanEnd")
    ELSE [s |-> [s EXCEPT !.step = "stateError"], op |-> "scanEnd"]

stateEndValue(s, c) ==
    LET n == Len(s.parseState)
    IN  IF n = 0 THEN stateEndTop(s, c)
        ELSE IF isSpace(c) THEN Goto(s, "stateEndValue", "scanSkipSpace")
        ELSE CASE s.parseState[n] = "parseObjectKey" ->
                    IF c = ":"
                    THEN Goto(SetTop(s, "parseObjectValue"), "stateBeginValue", "scanObjectKey")
                    ELSE ScanErr(s)
               [] s.parseState[n] = "parseObjectValue" ->
                    IF c = ","
                    THEN Goto(SetTop(s, "parseObjectKey"), "stateBeginString", "scanObjectValue")
                    ELSE IF c = "}" THEN Pop(s, "scanEndObject")
                    ELSE ScanErr(s)
               [] OTHER ->
                    IF c = "," THEN Goto(s, "stateBeginValue", "scanArrayValue")
                    ELSE IF c = "]" THEN Pop(s, "scanEndArray")
                    ELSE ScanErr(s)

stateBeginValue(s, c) ==
    IF isSpace(c) THEN [s |-> s, op |-> "scanSkipSpace"]
    ELSE CASE c = "{" -> Push(s, "stateBeginStringOrEmpty", "parseObjectKey", "scanBeginObject")
           [] c = "[" -> Push(s, "stateBeginValueOrEmpty", "parseArrayValue", "scanBeginArray")
           [] c = QUOTE -> Goto(s, "stateInString", "scanBeginLiteral")
           [] c = "-" -> Goto(s, "stateNeg", "scanBeginLiteral")
           [] c = "0" -> Goto(s, "state0", "scanBeginLiteral")
           [] c = "t" -> Goto(s, "stateT", "scanBeginLiteral")
           [] c = "f" -> Goto(s, "stateF", "scanBeginLiteral")
           [] c = "n" -> Goto(s, "stateN", "scanBeginLiteral")
           [] c \in Digits19 -> Goto(s, "state1", "scanBeginLiteral")
           [] OTHER -> ScanErr(s)

stateBeginString(s, c) ==
    IF isSpace(c) THEN [s |-> s, op |-> "scanSkipSpace"]
    ELSE IF c = QUOTE THEN Goto(s, "stateInString", "scanBeginLiteral")
    ELSE ScanErr(s)

state0(s, c) ==
    IF c = "." THEN Goto(s, "stateDot", "scanContinue")
    ELSE IF c \in {"e", "E"} THEN Goto(s, "stateE", "scanContinue")
    ELSE stateEndValue(s, c)

stateESign(s, c) ==
    IF c \in Digits THEN Goto(s, "stateE0", "scanContinue") ELSE ScanErr(s)

\* The literals true, false, null: the step after each byte but the first.
LiteralNext ==
    [stateT |-> <<"r", "stateTr">>, stateTr |-> <<"u", "stateTru">>,
     stateTru |-> <<"e", "stateEndValue">>,
     stateF |-> <<"a", "stateFa">>, stateFa |-> <<"l", "stateFal">>,
     stateFal |-> <<"s", "stateFals">>, stateFals |-> <<"e", "stateEndValue">>,
     stateN |-> <<"u", "stateNu">>, stateNu |-> <<"l", "stateNul">>,
     stateNul |-> <<"l", "stateEndValue">>]

HexNext ==
    [stateInStringEscU |-> "stateInStringEscU1", stateInStringEscU1 |-> "stateInStringEscU12",
     stateInStringEscU12 |-> "stateInStringEscU123", stateInStringEscU123 |-> "stateInString"]

\* scanner.step(c)
Step(s, c) ==
    CASE s.step = "stateBeginValue" -> stateBeginValue(s, c)
      [] s.step = "stateBeginValueOrEmpty" ->
            IF isSpace(c) THEN [s |-> s, op |-> "scanSkipSpace"]
            ELSE IF c = "]" THEN stateEndValue(s, c)
            ELSE stateBeginValue(s, c)
      [] s.step = "stateBeginStringOrEmpty" ->
            IF isSpace(c) THEN [s |-> s, op |-> "scanSkipSpace"]
            ELSE IF c = "}" THEN stateEndValue(SetTop(s, "parseObjectValue"), c)
            ELSE stateBeginString(s, c)
      [] s.step = "stateBeginString" -> stateBeginString(s, c)
      [] s.step = "stateEndValue" -> stateEndValue(s, c)
      [] s.step = "stateEndTop" -> stateEndTop(s, c)
      [] s.step = "stateInString" ->
            IF c = QUOTE THEN Goto(s, "stateEndValue", "scanContinue")
            ELSE IF c = BSLASH THEN Goto(s, "stateInStringEsc", "scanContinue")
            ELSE IF isControl(c) THEN ScanErr(s)
            ELSE [s |-> s, op |-> "scanContinue"]
      [] s.step = "stateInStringEsc" ->
            IF c \in {"b", "f", "n", "r", "t", BSLASH, "/", QUOTE}
            THEN Goto(s, "stateInString", "scanContinue")
            ELSE IF c = "u" THEN Goto(s, "stateInStringEscU", "scanContinue")
            ELSE ScanErr(s)
      [] s.step \in DOMAIN HexNext ->
            IF c \in HexDigits THEN Goto(s, HexNext[s.step], "scanContinue") ELSE ScanErr(s)
      [] s.step = "stateNeg" ->
            IF c = "0" THEN Goto(s, "state0", "scanContinue")
            ELSE IF c \in Digits19 THEN Goto(s, "state1", "scanContinue")
            ELSE ScanErr(s)
      [] s.step = "state1" ->
            IF c \in Digits THEN [s |-> s, op |-> "scanContinue"] ELSE state0(s, c)
      [] s.step = "state0" -> state0(s, c)
      [] s.step = "stateDot" ->
            IF c \in Digits THEN Goto(s, "stateDot0", "scanContinue") ELSE ScanErr(s)
      [] s.step = "stateDot0" ->
            IF c \in Digits THEN [s |-> s, op |-> "scanContinue"]
            ELSE IF c \in {"e", "E"} THEN Goto(s, "stateE", "scanContinue")
            ELSE stateEndValue(s, c)
      [] s.step = "stateE" ->
            IF c \in {"+", "-"} THEN Goto(s, "stateESign", "scanContinue")
            ELSE stateESign(s, c)
      [] s.step = "stateESign" -> stateESign(s, c)
      [] s.step = "stateE0" ->
            IF c \in Digits THEN [s |-> s, op |-> "scanContinue"] ELSE stateEndValue(s, c)
      [] s.step \in DOMAIN LiteralNext ->
            IF c = LiteralNext[s.step][1]
            THEN Goto(s, LiteralNext[s.step][2], "scanContinue")
            ELSE ScanErr(s)
      [] OTHER -> ScanErr(s)

\* scanner.eof(): the opcode at the end of the input.
ScanEOF(s) ==
    IF s.step = "stateError" THEN "scanError"
    ELSE IF s.step = "stateEndTop" THEN "scanEnd"
    ELSE IF Step(s, " ").s.step = "stateEndTop" THEN "scanEnd"
    ELSE "scanError"

(***************************************************************************)
(* json.Decoder.Decode: readValue finds the extent of the next value in    *)
(* the stream, starting at offset scanp (bytes already consumed).          *)
(***************************************************************************)
nonSpace(b) == \E i \in 1..Len(b) : ~isSpace(b[i])

\* One byte of readValue's scan; once the value has ended (or failed) the
\* remaining bytes are not looked at.
readStep(st, c, i) ==
    IF st.kind # "scanning" THEN st
    ELSE Bind(Step(st.s, c), LAMBDA r :
           CASE r.op = "scanEnd" -> [s |-> r.s, kind |-> "value", end |-> i - 1]
             [] r.op \in {"scanEndObject", "scanEndArray"} /\ r.s.step = "stateEndTop" ->
                   [s |-> r.s, kind |-> "value", end |-> i]
             [] r.op = "scanError" -> [s |-> r.s, kind |-> "error", end |-> i]
             [] OTHER -> [s |-> r.s, kind |-> "scanning", end |-> i])

\* The bytes buf[lo..hi] in order, stopping where the value ends (the range is
\* split in halves only to bound the depth of the evaluation).
RECURSIVE readLoop(_, _, _, _)
readLoop(buf, lo, hi, st) ==
    IF lo > hi THEN st
    ELSE IF lo = hi THEN readStep(st, buf[lo], lo)
    ELSE LET mid == (lo + hi) \div 2
         IN  Bind(readLoop(buf, lo, mid, st), LAMBDA left :
               IF left.kind = "scanning" THEN readLoop(buf, mid + 1, hi, left) ELSE left)

\* The value's extent: buf[scanp+1 .. end], leading white space included; at the
\* end of the input a value may still end (a number), else only white space
\* is a clean EOF.
readValue(buf, scanp) ==
    Bind(readLoop(buf, scanp + 1, Len(buf),
                  [s |-> ScanReset, kind |-> "scanning", end |-> scanp]),
         LAMBDA st :
           IF st.kind # "scanning" THEN [kind |-> st.kind, end |-> st.end]
           ELSE IF Step(st.s, " ").op = "scanEnd" THEN [kind |-> "value", end |-> Len(buf)]
           ELSE IF nonSpace(SubSeq(buf, scanp + 1, Len(buf)))
                THEN [kind |-> "error", end |-> Len(buf)]
                ELSE [kind |-> "EOF", end |-> Len(buf)])

\* Decode(&raw): the value's own bytes, from its first non-space byte.
RawOf(buf, scanp, end) ==
    LET first == CHOOSE i \in (scanp + 1)..end :
                    /\ ~isSpace(buf[i])
                    /\ \A j \in (scanp + 1)..(i - 1) : isSpace(buf[j])
    IN  SubSeq(buf, first, end)

(***************************************************************************)
(* json.Compact and json.Indent                                            *)
(***************************************************************************)
\* Compact that copies every byte, white space too.
compactStepKeepsSpace(st, c) ==
    IF ~st.ok THEN st
    ELSE Bind(Step(st.s, c), LAMBDA r :
           [s |-> r.s, ok |-> r.op # "scanError",
            dst |-> IF r.op = "scanError" THEN st.dst ELSE Append(st.dst, c)])

\* Compact that drops every white space byte, those inside strings too.
compactStepDropsAllSpace(st, c) ==
    IF ~st.ok THEN st
    ELSE Bind(Step(st.s, c), LAMBDA r :
           [s |-> r.s, ok |-> r.op # "scanError",
            dst |-> IF isSpace(c) \/ r.op \in {"scanEnd", "scanError"}
                    THEN st.dst ELSE Append(st.dst, c)])

\* One byte of Compact: bytes the scanner reports as white space (or as
\* following the value) are dropped.
compactStep(st, c) ==
    IF ~st.ok THEN st
    ELSE Bind(Step(st.s, c), LAMBDA r :
           [s |-> r.s, ok |-> r.op # "scanError",
            dst |-> IF r.op \in {"scanSkipSpace", "scanEnd", "scanError"}
                    THEN st.dst ELSE Append(st.dst, c)])

RECURSIVE compactLoop(_, _, _, _)
compactLoop(src, lo, hi, st) ==
    IF lo > hi THEN st
    ELSE IF lo = hi THEN compactStep(st, src[lo])
    ELSE LET mid == (lo + hi) \div 2
         IN  Bind(compactLoop(src, lo, mid, st), LAMBDA left :
               IF left.ok THEN compactLoop(src, mid + 1, hi, left) ELSE left)

Compact(src) ==
    Bind(src, LAMBDA b :
      Bind(compactLoop(b, 1, Len(b), [s |-> ScanReset, ok |-> TRUE, dst |-> <<>>]),
           LAMBDA st :
             IF ~st.ok \/ ScanEOF(st.s) = "scanError" THEN [ok |-> FALSE, out |-> <<>>]
             ELSE [ok |-> TRUE, out |-> st.dst]))

appendNewline(dst, pfx, ind, depth) == dst \o <<"\n">> \o pfx \o Repeat(ind, depth)

\* One byte of Indent.
indentStep(st, c, pfx, ind) ==
    IF ~st.ok THEN st ELSE
    Bind(Step(st.s, c), LAMBDA r :
    LET v == r.op
        opening == st.needIndent /\ v \notin {"scanEndObject", "scanEndArray"}
        depth == IF opening THEN st.depth + 1 ELSE st.depth
        needIndent == IF opening THEN FALSE ELSE st.needIndent
        dst == IF opening THEN appendNewline(st.dst, pfx, ind, depth) ELSE st.dst
    IN  CASE v = "scanSkipSpace" -> [st EXCEPT !.s = r.s]
          [] v = "scanError" -> [st EXCEPT !.s = r.s, !.ok = FALSE]
          [] v = "scanContinue" ->
               [s |-> r.s, ok |-> TRUE, dst |-> Append(dst, c),
                needIndent |-> needIndent, depth |-> depth]
          [] OTHER ->
               CASE c \in {"{", "["} ->
                      [s |-> r.s, ok |-> TRUE, dst |-> Append(dst, c),
                       needIndent |-> TRUE, depth |-> depth]
                 [] c = "," ->
                      [s |-> r.s, ok |-> TRUE,
                       dst |-> appendNewline(Append(dst, c), pfx, ind, depth),
                       needIndent |-> needIndent, depth |-> depth]
                 [] c = ":" ->
                      [s |-> r.s, ok |-> TRUE, dst |-> dst \o <<c, " ">>,
                       needIndent |-> needIndent, depth |-> depth]
                 [] c \in {"}", "]"} ->
                      IF needIndent
                      THEN [s |-> r.s, ok |-> TRUE, dst |-> Append(dst, c),
                            needIndent |-> FALSE, depth |-> depth]
                      ELSE [s |-> r.s, ok |-> TRUE,
                            dst |-> Append(appendNewline(dst, pfx, ind, depth - 1), c),
                            needIndent |-> FALSE, depth |-> depth - 1]
                 [] OTHER ->
                      [s |-> r.s, ok |-> TRUE, dst |-> Append(dst, c),
                       needIndent |-> needIndent, depth |-> depth])

RECURSIVE indentLoop(_, _, _, _, _, _)
indentLoop(src, lo, hi, st, pfx, ind) ==
    IF lo > hi THEN st
    ELSE IF lo = hi THEN indentStep(st, src[lo], pfx, ind)
    ELSE LET mid == (lo + hi) \div 2
         IN  Bind(indentLoop(src, lo, mid, st, pfx, ind), LAMBDA left :
               IF left.ok THEN indentLoop(src, mid + 1, hi, left, pfx, ind) ELSE left)

Indent(src, pfx, ind) ==
    Bind(src, LAMBDA b :
      Bind(indentLoop(b, 1, Len(b),
                      [s |-> ScanReset, ok |-> TRUE, dst |-> <<>>,
                       needIndent |-> FALSE, depth |-> 0],
                      pfx, ind),
           LAMBDA st :
             IF ~st.ok \/ ScanEOF(st.s) = "scanError" THEN [ok |-> FALSE, out |-> <<>>]
             ELSE [ok |-> TRUE, out |-> st.dst]))

(***************************************************************************)
(* Decoding into interface{} (the sort path): strings are unquoted,        *)
(* numbers become float64, objects become maps (a later member with the    *)
(* same key replaces the earlier one), arrays keep their order.            *)
(***************************************************************************)
\* The bytes of the model in ascending byte value (strings.Compare order).
ByteOrder ==
    <<"\t", "\n", "\f", "\r", ESC, " ", QUOTE, "&", "+", ",", "-", ".", "/",
      "0", "1", "2", "3", "4", "5", "6", "7", "8", "9", ":", "<", ">",
      "A", "B", "C", "D", "E", "F", "Z", "[", BSLASH, "]",
      "a", "b", "c", "d", "e", "f", "l", "m", "n", "r", "s", "t", "u", "x", "z",
      "{", "}">>

Code(c) == CHOOSE i \in 1..Len(ByteOrder) : ByteOrder[i] = c

\* strings.Compare(a, b) < 0
RECURSIVE LexLess(_, _)
LexLess(a, b) ==
    IF b = <<>> THEN FALSE
    ELSE IF a = <<>> THEN TRUE
    ELSE IF Head(a) = Head(b) THEN LexLess(Tail(a), Tail(b))
    ELSE Code(Head(a)) < Code(Head(b))

DigitSeq == <<"0", "1", "2", "3", "4", "5", "6", "7", "8", "9">>
DigitVal(c) == (CHOOSE i \in 1..10 : DigitSeq[i] = c) - 1

RECURSIVE NatOf(_, _)
NatOf(ds, acc) == IF ds = <<>> THEN acc ELSE NatOf(Tail(ds), 10 * acc + DigitVal(Head(ds)))

RECURSIVE Itoa(_)
Itoa(n) == IF n < 10 THEN <<DigitSeq[n + 1]>> ELSE Append(Itoa(n \div 10), DigitSeq[(n % 10) + 1])

RECURSIVE SkipWs(_, _)
SkipWs(s, i) == IF i <= Len(s) /\ isSpace(s[i]) THEN SkipWs(s, i + 1) ELSE i

\* Index of the last byte of the run of digits starting at i (i - 1 if none).
RECURSIVE DigitsEnd(_, _)
DigitsEnd(s, i) == IF i <= Len(s) /\ s[i] \in Digits THEN DigitsEnd(s, i + 1) ELSE i - 1

\* Index of the closing quote of the string literal whose opening quote is at i.
RECURSIVE StringEnd(_, _)
StringEnd(s, i) ==
    IF s[i + 1] = QUOTE THEN i + 1
    ELSE IF s[i + 1] = BSLASH THEN StringEnd(s, i + 2)
    ELSE StringEnd(s, i + 1)

\* Index of the last byte of the number literal starting at i.
NumberEnd(s, i) ==
    LET a == IF s[i] = "-" THEN i + 1 ELSE i
        b == DigitsEnd(s, a)
        c == IF b + 1 <= Len(s) /\ s[b + 1] = "." THEN DigitsEnd(s, b + 2) ELSE b
        d == IF c + 1 <= Len(s) /\ s[c + 1] \in {"e", "E"}
             THEN DigitsEnd(s, IF s[c + 2] \in {"+", "-"} THEN c + 3 ELSE c + 2)
             ELSE c
    IN  d

RECURSIVE StripLeadingZeros(_)
StripLeadingZeros(ds) ==
    IF ds # <<>> /\ Head(ds) = "0" THEN StripLeadingZeros(Tail(ds)) ELSE ds

RECURSIVE StripTrailingZeros(_)
StripTrailingZeros(ds) ==
    IF ds # <<>> /\ ds[Len(ds)] = "0"
    THEN StripTrailingZeros(SubSeq(ds, 1, Len(ds) - 1)) ELSE ds

\* strconv.ParseFloat on a JSON number literal: the float64 as sign, shortest
\* decimal digits d1 d2 ... and the position pt of the decimal point, so that
\* the value is 0.d1d2... * 10^pt.  (The literals of the model have few digits
\* and small exponents: they are exactly representable to shortest-digit
\* round trip and within range, where ParseFloat cannot fail.)
ParseFloat(lit0) ==
    Bind(lit0, LAMBDA lit :
    LET neg == lit[1] = "-"
        a == IF neg THEN 2 ELSE 1
        b == DigitsEnd(lit, a)
        hasFrac == b + 1 <= Len(lit) /\ lit[b + 1] = "."
        c == IF hasFrac THEN DigitsEnd(lit, b + 2) ELSE b
        int == SubSeq(lit, a, b)
        frac == IF hasFrac THEN SubSeq(lit, b + 2, c) ELSE <<>>
        hasExp == c + 1 <= Len(lit)
        expNeg == hasExp /\ lit[c + 2] = "-"
        e0 == IF hasExp /\ lit[c + 2] \in {"+", "-"} THEN c + 3 ELSE c + 2
        expAbs == IF hasExp THEN NatOf(SubSeq(lit, e0, Len(lit)), 0) ELSE 0
        exp == IF expNeg THEN 0 - expAbs ELSE expAbs
        all == int \o frac
        lead == StripLeadingZeros(all)
        dig == StripTrailingZeros(lead)
    IN  IF dig = <<>> THEN [neg |-> neg, dig |-> <<>>, pt |-> 0]
        ELSE [neg |-> neg, dig |-> dig,
              pt |-> Len(int) - (Len(all) - Len(lead)) + exp])

UnicodeEscapes ==
    {<<<<"0", "0", "3", "c">>, "<">>, <<<<"0", "0", "3", "e">>, ">">>,
     <<<<"0", "0", "2", "6">>, "&">>, <<<<"0", "0", "6", "1">>, "a">>,
     <<<<"0", "0", "2", "2">>, QUOTE>>}

\* The byte a \uXXXX escape of the model stands for.
UnicodeOf(hex) == (CHOOSE p \in UnicodeEscapes : p[1] = hex)[2]

SimpleEscapes ==
    [x \in {QUOTE, BSLASH, "/", "n", "t", "r", "f"} |->
        CASE x = "n" -> "\n" [] x = "t" -> "\t" [] x = "r" -> "\r" [] x = "f" -> "\f"
          [] OTHER -> x]

\* unquote: the string a literal's content (the bytes between the quotes) denotes.
RECURSIVE Unquote(_)
Unquote(b0) ==
    Bind(b0, LAMBDA b :
      IF b = <<>> THEN <<>>
      ELSE IF Head(b) # BSLASH THEN <<Head(b)>> \o Unquote(Tail(b))
      ELSE IF b[2] = "u" THEN <<UnicodeOf(SubSeq(b, 3, 6))>> \o Unquote(SubSeq(b, 7, Len(b)))
      ELSE <<SimpleEscapes[b[2]]>> \o Unquote(SubSeq(b, 3, Len(b))))

\* The value a (valid) JSON text denotes, objects as member lists in text order.
RECURSIVE ParseValue(_, _)
RECURSIVE ParseElems(_, _, _)
RECURSIVE ParseMembers(_, _, _)
ParseValue(s, i) ==
    CASE s[i] = "{" -> Bind(SkipWs(s, i + 1), LAMBDA i1 : ParseMembers(s, i1, <<>>))
      [] s[i] = "[" -> Bind(SkipWs(s, i + 1), LAMBDA i1 : ParseElems(s, i1, <<>>))
      [] s[i] = QUOTE ->
            Bind(StringEnd(s, i), LAMBDA e :
              [v |-> [k |-> "string", v |-> Unquote(SubSeq(s, i + 1, e - 1))], i |-> e + 1])
      [] s[i] = "t" -> [v |-> [k |-> "bool", v |-> TRUE], i |-> i + 4]
      [] s[i] = "f" -> [v |-> [k |-> "bool", v |-> FALSE], i |-> i + 5]
      [] s[i] = "n" -> [v |-> [k |-> "nil", v |-> <<>>], i |-> i + 4]
      [] OTHER ->
            Bind(NumberEnd(s, i), LAMBDA e :
              [v |-> [k |-> "float64", v |-> ParseFloat(SubSeq(s, i, e))], i |-> e + 1])

\* The elements from index i on, acc being the elements before them; the
\* result is the array and the index after its closing bracket.
ParseElems(s, i, acc) ==
    IF s[i] = "]" THEN [v |-> [k |-> "array", v |-> acc], i |-> i + 1]
    ELSE Bind(ParseValue(s, i), LAMBDA r :
           Bind([j |-> SkipWs(s, r.i), acc |-> Append(acc, r.v)], LAMBDA n :
             IF s[n.j] = ","
             THEN Bind(SkipWs(s, n.j + 1), LAMBDA i1 : ParseElems(s, i1, n.acc))
             ELSE [v |-> [k |-> "array", v |-> n.acc], i |-> n.j + 1]))

ParseMembers(s, i, acc) ==
    IF s[i] = "}" THEN [v |-> [k |-> "object", v |-> acc], i |-> i + 1]
    ELSE Bind(StringEnd(s, i), LAMBDA e :
           Bind(ParseValue(s, SkipWs(s, SkipWs(s, e + 1) + 1)), LAMBDA r :
             Bind([j |-> SkipWs(s, r.i),
                   acc |-> Append(acc, [key |-> Unquote(SubSeq(s, i + 1, e - 1)),
                                        val |-> r.v])],
                  LAMBDA n :
                    IF s[n.j] = ","
                    THEN Bind(SkipWs(s, n.j + 1), LAMBDA i1 : ParseMembers(s, i1, n.acc))
                    ELSE [v |-> [k |-> "object", v |-> n.acc], i |-> n.j + 1])))

ParseOrdered(text) ==
    Bind(text, LAMBDA s : Bind(SkipWs(s, 1), LAMBDA i : ParseValue(s, i).v))

\* map[string]interface{}: one value per key, the last member's.
RECURSIVE ToMap(_)
ToMap(t0) ==
    Bind(t0, LAMBDA t :
    CASE t.k = "array" -> [k |-> "array", v |-> [i \in 1..Len(t.v) |-> ToMap(t.v[i])]]
      [] t.k = "object" ->
            LET keys == {t.v[i].key : i \in 1..Len(t.v)}
                last(key) == CHOOSE i \in 1..Len(t.v) :
                                /\ t.v[i].key = key
                                /\ \A j \in (i + 1)..Len(t.v) : t.v[j].key # key
            IN  [k |-> "map", v |-> [key \in keys |-> ToMap(t.v[last(key)].val)]]
      [] OTHER -> t)

\* The leading digits of 2^1024 - 2^970, as 0.d1d2... * 10^309: a decimal at or
\* above it rounds beyond the largest float64.
Float64Limit ==
    <<"1", "7", "9", "7", "6", "9", "3", "1", "3", "4", "8", "6", "2", "3", "1", "5",
      "8", "0", "7", "9", "3", "7">>

\* strconv.ParseFloat's ErrRange, after which convertNumber fails.
RangeError(f) == f.pt > 309 \/ (f.pt = 309 /\ ~LexLess(f.dig, Float64Limit))

\* d.saveError: some number of the text, in any member or element, does not
\* convert.
RECURSIVE SavedError(_)
SavedError(t0) ==
    Bind(t0, LAMBDA t :
      CASE t.k = "float64" -> RangeError(t.v)
        [] t.k = "array" -> \E i \in 1..Len(t.v) : SavedError(t.v[i])
        [] t.k = "object" -> \E i \in 1..Len(t.v) : SavedError(t.v[i].val)
        [] OTHER -> FALSE)

\* decoder.Decode(&data): the error it returns, and the value it stores.
Unmarshal(b) == Bind(ParseOrdered(b), LAMBDA t : [err |-> SavedError(t), v |-> ToMap(t)])

(***************************************************************************)
(* json.Marshal / json.MarshalIndent of a decoded value                    *)
(***************************************************************************)
\* appendString: a string as a JSON literal.
RECURSIVE appendString(_, _)
appendString(str0, escapeHTML) ==
    Bind(str0, LAMBDA str :
    IF str = <<>> THEN <<>>
    ELSE LET c == Head(str)
             e == CASE c = QUOTE -> <<BSLASH, QUOTE>>
                    [] c = BSLASH -> <<BSLASH, BSLASH>>
                    [] c = "\n" -> <<BSLASH, "n">>
                    [] c = "\r" -> <<BSLASH, "r">>
                    [] c = "\t" -> <<BSLASH, "t">>
                    [] c = "\f" -> <<BSLASH, "f">>
                    [] c = "<" /\ escapeHTML -> <<BSLASH, "u", "0", "0", "3", "c">>
                    [] c = ">" /\ escapeHTML -> <<BSLASH, "u", "0", "0", "3", "e">>
                    [] c = "&" /\ escapeHTML -> <<BSLASH, "u", "0", "0", "2", "6">>
                    [] OTHER -> <<c>>
         IN  e \o appendString(Tail(str), escapeHTML))

QuoteString(str, escapeHTML) == <<QUOTE>> \o appendString(str, escapeHTML) \o <<QUOTE>>

\* floatEncoder: format 'f', or 'e' when abs < 1e-6 or abs >= 1e21, shortest
\* digits, and "e-0d" cleaned up to "e-d".
FormatFloat(f) ==
    LET sign == IF f.neg THEN <<"-">> ELSE <<>>
        n == Len(f.dig)
        e == f.pt - 1
        mant == IF n = 1 THEN f.dig ELSE <<f.dig[1], ".">> \o Tail(f.dig)
        expo == IF e < 0
                THEN <<"e", "-">> \o Itoa(0 - e)
                ELSE <<"e", "+">> \o (IF e < 10 THEN <<"0">> ELSE <<>>) \o Itoa(e)
    IN  IF n = 0 THEN sign \o <<"0">>
        ELSE IF f.pt <= -6 \/ f.pt >= 22 THEN sign \o mant \o expo
        ELSE IF f.pt <= 0 THEN sign \o <<"0", ".">> \o Repeat(<<"0">>, 0 - f.pt) \o f.dig
        ELSE IF f.pt >= n THEN sign \o f.dig \o Repeat(<<"0">>, f.pt - n)
        ELSE sign \o SubSeq(f.dig, 1, f.pt) \o <<".">> \o SubSeq(f.dig, f.pt + 1, n)

\* mapEncoder sorts the keys with strings.Compare.
RECURSIVE SortedKeys(_)
\* The keys in some order, the one the set happens to give: no sort.
RECURSIVE UnsortedKeys(_)
UnsortedKeys(keys0) ==
    Bind(keys0, LAMBDA keys :
      IF keys = {} THEN <<>>
      ELSE Bind(CHOOSE a \in keys : \A b \in keys \ {a} : LexLess(b, a),
                LAMBDA m : <<m>> \o UnsortedKeys(keys \ {m})))

SortedKeys(keys0) ==
    Bind(keys0, LAMBDA keys :
      IF keys = {} THEN <<>>
      ELSE Bind(CHOOSE a \in keys : \A b \in keys \ {a} : LexLess(a, b),
                LAMBDA m : <<m>> \o SortedKeys(keys \ {m})))

MapKeyOrder(m) == SortedKeys(DOMAIN m)

RECURSIVE JoinComma(_)
JoinComma(parts0) ==
    Bind(parts0, LAMBDA parts :
      IF parts = <<>> THEN <<>>
      ELSE IF Len(parts) = 1 THEN parts[1]
      ELSE parts[1] \o <<",">> \o JoinComma(Tail(parts)))

\* The HTML escaping json.Marshal and json.MarshalIndent apply.  The
\* SetEscapeHTML(false) of main.go:107 configures the Encoder, which the
\* loop never calls.
MarshalEscapeHTML == TRUE

RECURSIVE Encode(_, _)
Encode(v0, escapeHTML) ==
    Bind(v0, LAMBDA v :
    CASE v.k = "nil" -> <<"n", "u", "l", "l">>
      [] v.k = "bool" -> IF v.v THEN <<"t", "r", "u", "e">> ELSE <<"f", "a", "l", "s", "e">>
      [] v.k = "float64" -> FormatFloat(v.v)
      [] v.k = "string" -> QuoteString(v.v, escapeHTML)
      [] v.k = "array" ->
            <<"[">> \o JoinComma([i \in 1..Len(v.v) |-> Encode(v.v[i], escapeHTML)]) \o <<"]">>
      [] OTHER ->
            Bind(MapKeyOrder(v.v), LAMBDA keys :
              <<"{">>
              \o JoinComma([i \in 1..Len(keys) |->
                     QuoteString(keys[i], escapeHTML) \o <<":">>
                     \o Encode(v.v[keys[i]], escapeHTML)])
              \o <<"}">>))

Marshal(v) == Encode(v, MarshalEscapeHTML)

MarshalIndent(v, pfx, ind) == Indent(Marshal(v), pfx, ind).out

(***************************************************************************)
(* syntaxHighlight: five regexp.ReplaceAllString passes.  A match is a     *)
(* record [ok, end, g1, g2]: the index of its last byte and its groups.    *)
(***************************************************************************)
NoMatch == [ok |-> FALSE, end |-> 0, g1 |-> <<>>, g2 |-> <<>>]

RECURSIVE SkipReSpace(_, _)
SkipReSpace(s, i) == IF i <= Len(s) /\ reSpace(s[i]) THEN SkipReSpace(s, i + 1) ELSE i

\* Index of the first quote at or after i (Len(s) + 1 if none).
NextQuote(s, i) ==
    LET qs == {j \in i..Len(s) : s[j] = QUOTE}
    IN  IF qs = {} THEN Len(s) + 1 ELSE CHOOSE j \in qs : \A k \in qs : j <= k

\* reKey: "([^"]+)"\s*:
MatchKey(s, i) ==
    IF s[i] # QUOTE THEN NoMatch
    ELSE LET j == NextQuote(s, i + 1)
             k == SkipReSpace(s, j + 1)
         IN  IF j > i + 1 /\ j <= Len(s) /\ k <= Len(s) /\ s[k] = ":"
             THEN [ok |-> TRUE, end |-> k, g1 |-> SubSeq(s, i + 1, j - 1), g2 |-> <<>>]
             ELSE NoMatch

\* reString: :(\s*)"([^"]*)"
MatchString(s, i) ==
    IF s[i] # ":" THEN NoMatch
    ELSE LET k == SkipReSpace(s, i + 1)
             j == NextQuote(s, k + 1)
         IN  IF k <= Len(s) /\ s[k] = QUOTE /\ j <= Len(s)
             THEN [ok |-> TRUE, end |-> j, g1 |-> SubSeq(s, i + 1, k - 1),
                   g2 |-> SubSeq(s, k + 1, j - 1)]
             ELSE NoMatch

\* reNum: :(\s*)([0-9]+(?:\.[0-9]+)?(?:[eE][+-]?[0-9]+)?)
MatchNum(s, i) ==
    IF s[i] # ":" THEN NoMatch
    ELSE LET k == SkipReSpace(s, i + 1)
             a == DigitsEnd(s, k)
             f == IF a + 1 <= Len(s) /\ s[a + 1] = "." THEN DigitsEnd(s, a + 2) ELSE a + 1
             b == IF f >= a + 2 THEN f ELSE a
             x == IF b + 1 <= Len(s) /\ s[b + 1] \in {"e", "E"}
                  THEN IF b + 2 <= Len(s) /\ s[b + 2] \in {"+", "-"} THEN b + 3 ELSE b + 2
                  ELSE 0
             y == IF x > 0 THEN DigitsEnd(s, x) ELSE 0
             c == IF x > 0 /\ y >= x THEN y ELSE b
         IN  IF a >= k
             THEN [ok |-> TRUE, end |-> c, g1 |-> SubSeq(s, i + 1, k - 1),
                   g2 |-> SubSeq(s, k, c)]
             ELSE NoMatch

\* :(\s*)(w1|w2|...), the alternatives tried in order.
MatchWord(s, i, words) ==
    IF s[i] # ":" THEN NoMatch
    ELSE LET k == SkipReSpace(s, i + 1)
             hits == {n \in 1..Len(words) : StartsWithAt(s, k, words[n])}
         IN  IF hits # {}
             THEN LET w == words[CHOOSE n \in hits : \A m \in hits : n <= m]
                  IN  [ok |-> TRUE, end |-> k + Len(w) - 1, g1 |-> SubSeq(s, i + 1, k - 1),
                       g2 |-> w]
             ELSE NoMatch

MatchAt(pass, s, i) ==
    CASE pass = "reKey" -> MatchKey(s, i)
      [] pass = "reString" -> MatchString(s, i)
      [] pass = "reNum" -> MatchNum(s, i)
      [] pass = "reBool" -> MatchWord(s, i, <<<<"t", "r", "u", "e">>, <<"f", "a", "l", "s", "e">>>>)
      [] OTHER -> MatchWord(s, i, <<<<"n", "u", "l", "l">>>>)

keyColor == ColorBlue \o ColorBold
stringColor == ColorGreen
numberColor == ColorYellow
boolColor == ColorPurple
nullColor == ColorRed
reset == ColorReset

\* The replacement template of each pass, expanded for one match.
Expand(pass, m) ==
    CASE pass = "reKey" -> keyColor \o <<QUOTE>> \o m.g1 \o <<QUOTE>> \o reset \o <<":">>
      [] pass = "reString" ->
            <<":">> \o m.g1 \o stringColor \o <<QUOTE>> \o m.g2 \o <<QUOTE>> \o reset
      [] pass = "reNum" -> <<":">> \o m.g1 \o numberColor \o m.g2 \o reset
      [] pass = "reBool" -> <<":">> \o m.g1 \o boolColor \o m.g2 \o reset
      [] OTHER -> <<":">> \o m.g1 \o nullColor \o m.g2 \o reset

\* ReplaceAllString: the leftmost match at or after i is replaced, and the
\* search goes on after it.
\* The leftmost match at or after i, with the index it starts at.
FirstMatch(pass, s, i) ==
    Bind({j \in i..Len(s) : MatchAt(pass, s, j).ok}, LAMBDA starts :
      IF starts = {} THEN [m |-> NoMatch, start |-> 0]
      ELSE Bind(CHOOSE a \in starts : \A b \in starts : a <= b,
                LAMBDA j : [m |-> MatchAt(pass, s, j), start |-> j]))

RECURSIVE ReplaceAll(_, _, _)
ReplaceAll(pass, s, i) ==
    Bind(FirstMatch(pass, s, i), LAMBDA f :
      IF ~f.m.ok THEN SubSeq(s, i, Len(s))
      ELSE SubSeq(s, i, f.start - 1) \o Expand(pass, f.m)
           \o ReplaceAll(pass, s, f.m.end + 1))

HighlightPasses == <<"reKey", "reString", "reNum", "reBool", "reNull">>

RECURSIVE ApplyPasses(_, _)
ApplyPasses(passes, str0) ==
    Bind(str0, LAMBDA str :
      IF passes = <<>> THEN str
      ELSE ApplyPasses(Tail(passes), ReplaceAll(Head(passes), str, 1)))

syntaxHighlight(js) == ApplyPasses(HighlightPasses, js)

(***************************************************************************)
(* The program state                                                       *)
(***************************************************************************)
VARIABLES
    args,         \* the command line as flag.Parse leaves it
    env,          \* what the operating system answers: files, terminals, the sink
    values,       \* the top-level value texts the input stream is made of
    input,        \* the bytes of the reader (the -i file, or standard input)
    pc,           \* where main is
    colorize,     \* *colorize, which main overwrites
    scanp,        \* the decoder's offset into the input
    raw,          \* json.RawMessage of this iteration
    data,         \* interface{} of this iteration
    outputBytes,
    count,
    out,          \* the bytes the writer has accepted
    log           \* what the print helpers have printed, in order

vars == <<args, env, values, input, pc, colorize, scanp, raw, data, outputBytes,
          count, out, log>>

inputFile == args.i
outputFile == args.o
indent == args.indent
prefix == args.prefix
compact == args.c
sortKeys == args.s
validate == args.v
help == args.h
version == args.version

Nil == [k |-> "nil", v |-> <<>>]

Msg(fn, msg, n) == [fn |-> fn, msg |-> msg, n |-> n]
printError(msg) == Msg("printError", msg, 0)
printSuccess(msg, n) == Msg("printSuccess", msg, n)
printInfo(msg) == Msg("printInfo", msg, 0)

\* os.Exit(1) after printError(msg)
Fatal(msg) ==
    /\ log' = Append(log, printError(msg))
    /\ pc' = "exit1"

(***************************************************************************)
(* main                                                                    *)
(***************************************************************************)
\* main.go:51-58
VersionOrHelp ==
    /\ pc = "start"
    /\ version \/ help
    /\ log' = Append(log, IF version THEN Msg("printVersion", "VERSION", 0)
                          ELSE Msg("printHelp", "USAGE", 0))
    /\ pc' = "done"
    /\ UNCHANGED <<args, env, values, input, colorize, scanp, raw, data, outputBytes,
                   count, out>>

\* main.go:60-79, 1. Determine Input Source
OpenInput ==
    /\ pc = "start"
    /\ ~version /\ ~help
    /\ IF inputFile # ""
       THEN IF ~env.openOK THEN Fatal("Error opening file")
            ELSE /\ log' = Append(log, printInfo("Processing"))
                 /\ pc' = "output"
       ELSE IF env.stdinTTY THEN Fatal("No input provided. Use -i or pipe data.")
            ELSE /\ pc' = "output"
                 /\ log' = log
    /\ UNCHANGED <<args, env, values, input, colorize, scanp, raw, data, outputBytes,
                   count, out>>

\* main.go:81-110, 2. Prepare Output
PrepareOutput ==
    /\ pc = "output"
    /\ IF outputFile # ""
       THEN IF ~env.createOK
            THEN Fatal("Error creating output file") /\ colorize' = colorize
            ELSE /\ colorize' = FALSE
                 /\ pc' = "loop"
                 /\ log' = log
       ELSE /\ colorize' = IF ~env.stdoutTTY THEN FALSE ELSE colorize
            /\ pc' = "loop"
            /\ log' = log
    /\ UNCHANGED <<args, env, values, input, scanp, raw, data, outputBytes, count, out>>

\* main.go:114-137, Decode logic
Decode ==
    /\ pc = "loop"
    /\ \E r \in {readValue(input, scanp)} :
           CASE r.kind = "EOF" ->
                  /\ pc' = "finish"
                  /\ UNCHANGED <<scanp, raw, data, log>>
             [] r.kind = "error" ->
                  /\ Fatal("Invalid JSON")
                  /\ UNCHANGED <<scanp, raw, data>>
             [] r.kind = "value" /\ sortKeys ->
                  \E u \in {Unmarshal(RawOf(input, scanp, r.end))} :
                     IF u.err
                     THEN /\ Fatal("Invalid JSON")
                          /\ UNCHANGED <<scanp, raw, data>>
                     ELSE /\ scanp' = r.end
                          /\ data' = u.v
                          /\ pc' = "decoded"
                          /\ UNCHANGED <<raw, log>>
             [] OTHER ->
                  /\ scanp' = r.end
                  /\ raw' = RawOf(input, scanp, r.end)
                  /\ pc' = "decoded"
                  /\ UNCHANGED <<data, log>>
    /\ UNCHANGED <<args, env, values, input, colorize, outputBytes, count, out>>

\* The skip of validate-only mode without its count++.
ValidateOnlyUncounted ==
    /\ pc = "decoded"
    /\ validate
    /\ pc' = "loop"
    /\ raw' = <<>>
    /\ data' = Nil
    /\ UNCHANGED <<args, env, values, input, colorize, scanp, outputBytes, count, out, log>>

\* main.go:139-142
ValidateOnly ==
    /\ pc = "decoded"
    /\ validate
    /\ count' = count + 1
    /\ pc' = "loop"
    /\ raw' = <<>>
    /\ data' = Nil
    /\ UNCHANGED <<args, env, values, input, colorize, scanp, outputBytes, out, log>>

\* main.go:144-176, Encode logic
Encode0 ==
    IF sortKeys
    THEN IF compact THEN [ok |-> TRUE, msg |-> "", out |-> Marshal(data)]
         ELSE [ok |-> TRUE, msg |-> "", out |-> MarshalIndent(data, prefix, indent)]
    ELSE IF compact
         THEN Bind(Compact(raw), LAMBDA r :
                [ok |-> r.ok, msg |-> "Compact error", out |-> r.out])
         ELSE Bind(Indent(raw, prefix, indent), LAMBDA r :
                [ok |-> r.ok, msg |-> "Encoding error", out |-> r.out])

EncodeValue ==
    /\ pc = "decoded"
    /\ ~validate
    /\ \E r \in {Encode0} :
           IF r.ok
           THEN /\ outputBytes' = r.out
                /\ pc' = "encoded"
                /\ log' = log
           ELSE /\ Fatal(r.msg)
                /\ outputBytes' = outputBytes
    /\ UNCHANGED <<args, env, values, input, colorize, scanp, raw, data, count, out>>

\* main.go:178-181, Apply Syntax Highlighting if enabled
HighlightEnabled == colorize /\ outputFile = ""

Highlight ==
    /\ pc = "encoded"
    /\ outputBytes' = IF HighlightEnabled THEN syntaxHighlight(outputBytes) ELSE outputBytes
    /\ pc' = "write"
    /\ UNCHANGED <<args, env, values, input, colorize, scanp, raw, data, count, out, log>>

\* writer.Write(b): the sink takes the bytes or fails; main ignores the result.
WriterWrite(sink, b) == IF env.writeOK THEN sink \o b ELSE sink

\* main.go:183-186, Write to output
WriteOutput ==
    /\ pc = "write"
    /\ out' = WriterWrite(WriterWrite(out, outputBytes), <<"\n">>)
    /\ count' = count + 1
    /\ pc' = "loop"
    /\ raw' = <<>>
    /\ data' = Nil
    /\ outputBytes' = <<>>
    /\ UNCHANGED <<args, env, values, input, colorize, scanp, log>>

\* main.go:189-194
Finish ==
    /\ pc = "finish"
    /\ log' = IF validate THEN Append(log, printSuccess("Validated %d JSON object(s)", count))
              ELSE IF outputFile # "" THEN Append(log, printSuccess("Saved to", 0))
              ELSE log
    /\ pc' = "done"
    /\ UNCHANGED <<args, env, values, input, colorize, scanp, raw, data, outputBytes,
                   count, out>>

(***************************************************************************)
(* The runs of the model: command lines, environments and input streams.   *)
(***************************************************************************)
\* The largest number of top-level values in a stream.
MaxVals == 2

Str(content) == <<QUOTE>> \o content \o <<QUOTE>>

RECURSIVE Join(_, _)
Join(parts0, sep) ==
    Bind(parts0, LAMBDA parts :
      IF parts = <<>> THEN <<>>
      ELSE IF Len(parts) = 1 THEN parts[1]
      ELSE parts[1] \o sep \o Join(Tail(parts), sep))

\* An array and an object text, with white space ws around every token.
Arr(elems, ws) == <<"[">> \o ws \o Join(elems, ws \o <<",">> \o ws) \o ws \o <<"]">>
Member(key, val, ws) == Str(key) \o ws \o <<":">> \o ws \o val
Obj(members, ws) == <<"{">> \o ws \o Join(members, ws \o <<",">> \o ws) \o ws \o <<"}">>

NumberAtoms ==
    {<<"1">>, <<"9">>, <<"-", "2">>, <<"1", ".", "5", "0">>, <<"1", "E", "2">>,
     <<"2", "e", "-", "7">>, <<"1", "e", "9", "9", "9">>}
StringAtoms ==
    {Str(<<"a">>), Str(<<>>), Str(<<"<", "b", ">", "&">>),
     Str(<<BSLASH, QUOTE, " ", ":", "1">>), Str(<<"a", ":", " ", "n", "u", "l", "l">>),
     Str(<<BSLASH, "u", "0", "0", "3", "c", BSLASH, "n">>)}
LiteralAtoms == {<<"t", "r", "u", "e">>, <<"f", "a", "l", "s", "e">>, <<"n", "u", "l", "l">>}
Atoms == NumberAtoms \cup StringAtoms \cup LiteralAtoms
CoreAtoms == {<<"1">>, Str(<<"<">>), <<"n", "u", "l", "l">>}

\* Key contents as written in the input.
Keys == {<<"z">>, <<"a">>, <<"Z">>, <<"<">>}
FewKeys == {<<"z">>, <<"a">>}

WhiteSpaces == {<<>>, <<"\n", " ">>}

Pairs(ws) == {Obj(<<Member(k1, <<"9">>, ws), Member(k2, <<"1">>, ws)>>, ws) : k1, k2 \in Keys}
FewPairs(ws) ==
    {Obj(<<Member(k1, <<"9">>, ws), Member(k2, <<"1">>, ws)>>, ws) : k1, k2 \in FewKeys}

\* Well-formed values: scalars, flat containers, and containers nested to depth
\* two and three.
WellFormed(ws) ==
    Atoms
    \cup {Arr(<<>>, ws), Obj(<<>>, ws)}
    \cup {Arr(<<a>>, ws) : a \in Atoms}
    \cup {Arr(<<a, b>>, ws) : a, b \in CoreAtoms}
    \cup {Obj(<<Member(k, a, ws)>>, ws) : k \in {<<"a">>, <<"<">>}, a \in Atoms}
    \cup Pairs(ws)
    \cup {Obj(<<Member(k1, o, ws), Member(k2, Arr(<<<<"2">>, <<"1">>>>, ws), ws)>>, ws) :
            k1, k2 \in FewKeys, o \in FewPairs(ws)}
    \cup {Arr(<<o, Arr(<<>>, ws)>>, ws) : o \in FewPairs(ws)}
    \cup {Obj(<<Member(<<"b">>, Obj(<<Member(<<"a">>, o, ws)>>, ws), ws)>>, ws) :
            o \in FewPairs(ws)}

\* Malformed texts: each fails at one of its own bytes, or is cut short.
Malformed ==
    {<<"{", QUOTE, "a", QUOTE, ":", "}">>, <<"{", "b", "a", "d", "}">>,
     <<"[", "1", ",">>}

Val(text, wf) == [text |-> text, wf |-> wf]

\* The values of the streams: few, so that streams of several values stay few.
StreamValues ==
    {Val(Obj(<<Member(<<"a">>, <<"1">>, <<>>)>>, <<>>), TRUE),
     Val(Obj(<<Member(<<"z">>, <<"9">>, <<>>), Member(<<"a">>, Str(<<"<">>), <<" ">>)>>, <<>>), TRUE),
     Val(<<"7">>, TRUE), Val(<<"1", "e", "9", "9", "9">>, TRUE)}
    \cup {Val(t, FALSE) : t \in Malformed}

Streams == UNION {[1..n -> StreamValues] : n \in 0..MaxVals}

\* The input: the value texts, sep between them, and after the last one or not.
Layouts == {[sep |-> <<"\n">>, trail |-> TRUE], [sep |-> <<" ">>, trail |-> FALSE]}

StreamText(vals, layout) ==
    Join([i \in 1..Len(vals) |-> vals[i].text], layout.sep)
    \o (IF layout.trail /\ vals # <<>> THEN layout.sep ELSE <<>>)

DefaultArgs ==
    [i |-> "", o |-> "", indent |-> <<" ", " ">>, prefix |-> <<>>, c |-> FALSE,
     s |-> FALSE, color |-> "absent", v |-> FALSE, h |-> FALSE, version |-> FALSE]

DefaultEnv ==
    [openOK |-> TRUE, stdinTTY |-> FALSE, createOK |-> TRUE, stdoutTTY |-> FALSE,
     writeOK |-> TRUE]

\* -indent / -prefix settings: the default, white space, and visible bytes.
Formats ==
    {[indent |-> <<" ", " ">>, prefix |-> <<>>],
     [indent |-> <<"\t">>, prefix |-> <<" ">>],
     [indent |-> <<"-">>, prefix |-> <<">">>]}

Run(a, e, vals, layout) == [args |-> a, env |-> e, values |-> vals, layout |-> layout]

\* One value, every formatting option, to a terminal and to a pipe.
ValueRuns ==
    {Run([DefaultArgs EXCEPT !.s = s, !.c = c, !.indent = f.indent, !.prefix = f.prefix],
         [DefaultEnv EXCEPT !.stdoutTTY = tty],
         <<Val(t, TRUE)>>, [sep |-> <<"\n">>, trail |-> TRUE]) :
        s \in BOOLEAN, c \in BOOLEAN, tty \in BOOLEAN,
        f \in Formats, t \in UNION {WellFormed(ws) : ws \in WhiteSpaces}}

\* Streams of several values, well-formed or not, validated or rendered, to
\* standard output or a file, with a sink that takes the bytes or fails.
StreamModes ==
    {[DefaultArgs EXCEPT !.v = TRUE], [DefaultArgs EXCEPT !.v = TRUE, !.s = TRUE],
     DefaultArgs, [DefaultArgs EXCEPT !.c = TRUE], [DefaultArgs EXCEPT !.s = TRUE]}

StreamRuns ==
    {Run([m EXCEPT !.o = o], [DefaultEnv EXCEPT !.writeOK = w], vals, layout) :
        m \in StreamModes, o \in {"", "out.json"}, w \in BOOLEAN,
        vals \in Streams, layout \in Layouts}

\* The command line and environment around the loop: -color, -i, -o, -h,
\* -version, terminals, files that do not open.
SetupRuns ==
    {Run([DefaultArgs EXCEPT !.color = col, !.o = o, !.i = i, !.c = c], e, <<v>>,
         [sep |-> <<"\n">>, trail |-> TRUE]) :
        col \in {"absent", "true", "false"}, o \in {"", "out.json"},
        i \in {"", "in.json"}, c \in BOOLEAN,
        e \in {[DefaultEnv EXCEPT !.stdoutTTY = tty, !.stdinTTY = sty, !.openOK = op,
                                  !.createOK = cr] :
                 tty \in BOOLEAN, sty \in BOOLEAN, op \in BOOLEAN, cr \in BOOLEAN},
        v \in {x \in StreamValues : x.wf}}
    \cup {Run([DefaultArgs EXCEPT !.h = h, !.version = ver, !.v = vo], DefaultEnv, <<v>>,
              [sep |-> <<"\n">>, trail |-> TRUE]) :
            h \in BOOLEAN, ver \in BOOLEAN, vo \in BOOLEAN, v \in {x \in StreamValues : x.wf}}

Runs == ValueRuns \cup StreamRuns \cup SetupRuns

Init ==
    /\ \E r \in Runs :
          /\ args = r.args
          /\ env = r.env
          /\ values = r.values
          /\ input = StreamText(r.values, r.layout)
    /\ pc = "start"
    /\ colorize = (args.color # "false")
    /\ scanp = 0
    /\ raw = <<>>
    /\ data = Nil
    /\ outputBytes = <<>>
    /\ count = 0
    /\ out = <<>>
    /\ log = <<>>

Next ==
    \/ VersionOrHelp
    \/ OpenInput
    \/ PrepareOutput
    \/ Decode
    \/ ValidateOnly
    \/ EncodeValue
    \/ Highlight
    \/ WriteOutput
    \/ Finish

Spec == Init /\ [][Next]_vars

(***************************************************************************)
(* Vocabulary of the properties: runs, tokens, escape sequences.           *)
(***************************************************************************)
Halted == pc \in {"done", "exit1"}

\* The run does not reach the loop: the input or the output is unavailable.
SetupFails ==
    \/ inputFile # "" /\ ~env.openOK
    \/ inputFile = "" /\ env.stdinTTY
    \/ outputFile # "" /\ ~env.createOK

\* The run reads the stream: neither -h nor -version, input and output available.
Streaming == ~version /\ ~help /\ ~SetupFails

\* The value the loop is working on (between its decoding and its writing).
Current == values[count + 1]

LastOf(l) == l[Len(l)]

NoSuccess == \A i \in 1..Len(log) : log[i].fn # "printSuccess"

WhiteOnly(b) == \A i \in 1..Len(b) : isSpace(b[i])

Occurrences(b, c) == Cardinality({i \in 1..Len(b) : b[i] = c})

\* The parts of ss[lo..hi], one after the other.
RECURSIVE Flatten(_, _, _)
Flatten(ss, lo, hi) ==
    IF lo > hi THEN <<>>
    ELSE IF lo = hi THEN ss[lo]
    ELSE LET mid == (lo + hi) \div 2
         IN  Flatten(ss, lo, mid) \o Flatten(ss, mid + 1, hi)

\* A lexer for JSON-like text, total on any bytes: string literals (escapes
\* respected), the six punctuation bytes, runs of white space, and runs of
\* anything else (numbers, true, false, null, stray bytes).
Punctuation == {"{", "}", "[", "]", ",", ":"}

NewToken(st, k, c, mode) == [toks |-> Append(st.toks, [k |-> k, t |-> <<c>>]), mode |-> mode]

Extend(st, c, mode) ==
    [toks |-> [st.toks EXCEPT ![Len(st.toks)].t = Append(@, c)], mode |-> mode]

lexStep(st, c) ==
    CASE st.mode = "string" ->
            Extend(st, c, IF c = BSLASH THEN "escape" ELSE IF c = QUOTE THEN "between" ELSE "string")
      [] st.mode = "escape" -> Extend(st, c, "string")
      [] c = QUOTE -> NewToken(st, "string", c, "string")
      [] c \in Punctuation -> NewToken(st, "punct", c, "between")
      [] isSpace(c) ->
            IF st.mode = "space" THEN Extend(st, c, "space") ELSE NewToken(st, "space", c, "space")
      [] OTHER ->
            IF st.mode = "literal" THEN Extend(st, c, "literal")
            ELSE NewToken(st, "literal", c, "literal")

RECURSIVE lexLoop(_, _, _, _)
lexLoop(b, lo, hi, st) ==
    IF lo > hi THEN st
    ELSE IF lo = hi THEN lexStep(st, b[lo])
    ELSE LET mid == (lo + hi) \div 2
         IN  Bind(lexLoop(b, lo, mid, st), LAMBDA left :
               lexLoop(b, mid + 1, hi, left))

Lex(b0) == Bind(b0, LAMBDA b : lexLoop(b, 1, Len(b), [toks |-> <<>>, mode |-> "between"]).toks)

Significant(t) == t.k # "space"

\* The tokens of a text, white space between them left out.
Tokens(b) == SelectSeq(Lex(b), Significant)

\* The text without its ANSI sequences ESC [ ... m.  (No JSON text holds a raw
\* ESC byte, so these are the sequences a highlighter put in.)
stripStep(st, c) ==
    IF st.esc THEN [st EXCEPT !.esc = c # "m"]
    ELSE IF c = ESC THEN [st EXCEPT !.esc = TRUE]
    ELSE [st EXCEPT !.dst = Append(@, c)]

RECURSIVE stripLoop(_, _, _, _)
stripLoop(b, lo, hi, st) ==
    IF lo > hi THEN st
    ELSE IF lo = hi THEN stripStep(st, b[lo])
    ELSE LET mid == (lo + hi) \div 2
         IN  Bind(stripLoop(b, lo, mid, st), LAMBDA left :
               stripLoop(b, mid + 1, hi, left))

StripAnsi(b0) == Bind(b0, LAMBDA b : stripLoop(b, 1, Len(b), [esc |-> FALSE, dst |-> <<>>]).dst)

(***************************************************************************)
(* Validate-only mode                                                      *)
(***************************************************************************)
\* The decoder accepts the value: it is well-formed and, when it is decoded
\* into interface{}, each of its numbers converts.
Decodes(v) == v.wf /\ (sortKeys => ~Unmarshal(v.text).err)

\* The number of values before the first one the decoder rejects.
Accepted ==
    Cardinality({i \in 1..Len(values) : \A j \in 1..i : Decodes(values[j])})

\* C2: in validate-only mode nothing is ever written to the output; a run over a
\* stream whose values all decode ends with exit status 0 after reporting
\* success with a count equal to the number of values; a run over a stream
\* with a value that does not decode ends at that value, with the error
\* reported and exit status 1, and never reports success.
ValidateOnlyContract ==
    (validate /\ Streaming) =>
        /\ out = <<>>
        /\ count <= Accepted
        /\ pc # "done" => NoSuccess
        /\ Halted =>
              IF Accepted = Len(values)
              THEN /\ pc = "done"
                   /\ LastOf(log) = printSuccess("Validated %d JSON object(s)", Len(values))
              ELSE /\ pc = "exit1"
                   /\ count = Accepted
                   /\ LastOf(log) = printError("Invalid JSON")
                   /\ NoSuccess

\* A validate-only run over a stream of two values has ended in success.
ValidatedTwo ==
    /\ validate /\ Streaming /\ pc = "done" /\ Len(values) = 2 /\ count = 2
    /\ LastOf(log).fn = "printSuccess"

(***************************************************************************)
(* Writing                                                                 *)
(***************************************************************************)
\* C7: a write the destination refuses is fatal: once a rendered value has met
\* a failing sink the run is at exit status 1, not in the loop and not done.
WriteFailureIsFatal ==
    (~validate /\ ~env.writeOK /\ count > 0) => pc = "exit1"

(***************************************************************************)
(* Colors                                                                  *)
(***************************************************************************)
\* C8: with -color on the command line and standard output as destination,
\* every rendered value goes through the highlighter, terminal or not.
ColorFlagForcesHighlight ==
    (pc = "encoded" /\ args.color = "true" /\ outputFile = "") => HighlightEnabled

\* The step of the loop that passes a rendered value through syntaxHighlight.
Highlights == pc = "encoded" /\ pc' = "write" /\ HighlightEnabled

\* C4: taking the ANSI sequences out of syntaxHighlight(R) gives R back, byte
\* for byte, for every rendered text R.
HighlightOnlyInserts ==
    [][Highlights => StripAnsi(outputBytes') = outputBytes]_vars

\* The color of a token's class: a string before a colon is a key, the other
\* strings are string values, true and false are booleans, null is null,
\* and what else is no punctuation nor white space is a number.
ClassColor(toks, i) ==
    CASE toks[i].k \in {"punct", "space"} -> <<>>
      [] toks[i].k = "string" ->
            IF \E j \in (i + 1)..Len(toks) :
                  /\ toks[j].t = <<":">>
                  /\ \A m \in (i + 1)..(j - 1) : toks[m].k = "space"
            THEN keyColor ELSE stringColor
      [] toks[i].t \in {<<"t", "r", "u", "e">>, <<"f", "a", "l", "s", "e">>} -> boolColor
      [] toks[i].t = <<"n", "u", "l", "l">> -> nullColor
      [] OTHER -> numberColor

\* The text with each key, string, number, boolean and null wrapped once in the
\* color of its class and the reset code, every other byte as it is.
WrappedByClass(b) ==
    Bind(Lex(b), LAMBDA toks :
      Flatten([i \in 1..Len(toks) |->
                  IF ClassColor(toks, i) = <<>> THEN toks[i].t
                  ELSE ClassColor(toks, i) \o toks[i].t \o reset],
              1, Len(toks)))

\* C9: syntaxHighlight wraps every key, string value, number (negative ones
\* too), boolean and null of a rendered text, member of an object or element
\* of an array, in the color of its class and the reset code, each once.
HighlightWrapsEveryToken ==
    [][Highlights => outputBytes' = WrappedByClass(outputBytes)]_vars

(***************************************************************************)
(* HTML characters                                                         *)
(***************************************************************************)
\* C10: every <, > and & of the input value is in the rendered value as itself,
\* whatever -s and -c are.
HTMLCharactersKept ==
    pc = "encoded" =>
        \A c \in {"<", ">", "&"} :
            Occurrences(outputBytes, c) >= Occurrences(Current.text, c)

(***************************************************************************)
(* The stream                                                              *)
(***************************************************************************)
\* What the loop makes of one value text under the options of the run.
RenderedValue(text) ==
    LET encoded == IF sortKeys
                   THEN IF compact THEN Marshal(Unmarshal(text).v)
                        ELSE MarshalIndent(Unmarshal(text).v, prefix, indent)
                   ELSE IF compact THEN Compact(text).out
                        ELSE Indent(text, prefix, indent).out
    IN  IF HighlightEnabled THEN syntaxHighlight(encoded) ELSE encoded

\* The first n values of the stream as the output holds them: each rendered
\* value followed by one newline, in input order.
RenderedPrefix(n) ==
    Flatten([i \in 1..n |-> RenderedValue(values[i].text) \o <<"\n">>], 1, n)

\* The number of values before the first malformed one.
WellFormedPrefix ==
    Cardinality({i \in 1..Len(values) : \A j \in 1..i : values[j].wf})

\* The stream contract for the first j values being the ones to render: the
\* output is at every moment the rendered values written so far, and a run
\* that has ended has written exactly j values - all K and exit status 0, or
\* the j before the rejected one, the error reported and exit status 1.
StreamContract(j) ==
    (~validate /\ Streaming /\ env.writeOK /\ pc \notin {"start", "output"}) =>
        /\ count <= j
        /\ out = RenderedPrefix(count)
        /\ Halted =>
              /\ count = j
              /\ IF j = Len(values) THEN pc = "done"
                 ELSE pc = "exit1" /\ LastOf(log) = printError("Invalid JSON")

\* C1: a stream of K values is written as K rendered values in input order, or,
\* when value j+1 is the first malformed one, as the j values before it, the
\* run ending there with an error and exit status 1.
StreamRenderedUpToMalformed == StreamContract(WellFormedPrefix)

\* What the loop does keep: the same contract with "the first value the decoder
\* rejects" in the place of "the first malformed value".  With -s a well-formed
\* value holding a number beyond float64 is rejected.
StreamRenderedUpToRejected == StreamContract(Accepted)

(***************************************************************************)
(* Sorted keys                                                             *)
(***************************************************************************)
\* Byte-wise order of two key strings, by the bytes' values.
ByteLeq(a, b) ==
    \/ \E n \in 1..Len(a) :
          /\ n <= Len(b)
          /\ \A m \in 1..(n - 1) : a[m] = b[m]
          /\ Code(a[n]) < Code(b[n])
    \/ /\ Len(a) <= Len(b)
       /\ \A m \in 1..Len(a) : a[m] = b[m]

IsKey(toks, i) ==
    /\ toks[i].k = "string"
    /\ i < Len(toks)
    /\ toks[i + 1].t = <<":">>

\* The string a key token denotes.
KeyOf(tok) == Unquote(SubSeq(tok.t, 2, Len(tok.t) - 1))

Brackets(toks, from, to, which) ==
    Cardinality({k \in from..to : toks[k].t \in which})

\* The keys at i and j > i are keys of one object: between them every
\* container that opens closes, and none closes that had not opened.
SameObject(toks, i, j) ==
    /\ \A k \in (i + 1)..(j - 1) :
          Brackets(toks, i + 1, k, {<<"{">>, <<"[">>})
              >= Brackets(toks, i + 1, k, {<<"}">>, <<"]">>})
    /\ Brackets(toks, i + 1, j - 1, {<<"{">>, <<"[">>})
          = Brackets(toks, i + 1, j - 1, {<<"}">>, <<"]">>})

StringOrPunct(t) == t.k \in {"string", "punct"}

\* Every object of the text, at every depth, has its keys in non-decreasing
\* order.  (Read off the string and punctuation tokens, so that it is defined
\* for a text indented with bytes that are not white space.)
KeysInOrder(b) ==
    Bind(SelectSeq(Lex(b), StringOrPunct), LAMBDA toks :
      \A i \in 1..Len(toks) : \A j \in (i + 1)..Len(toks) :
          (IsKey(toks, i) /\ IsKey(toks, j) /\ SameObject(toks, i, j))
              => ByteLeq(KeyOf(toks[i]), KeyOf(toks[j])))

\* The value a JSON text denotes, an object as a map from its keys.
ValueOf(text) == ToMap(ParseOrdered(text))

\* The rendered text is JSON: compact, or indented with white space.
RendersJSON == compact \/ (WhiteOnly(indent) /\ WhiteOnly(prefix))

ExampleInput ==
    <<"{", QUOTE, "z", QUOTE, ":", "9", ",", QUOTE, "a", QUOTE, ":", "1", "}">>

ExampleOutput ==
    <<"{", "\n", " ", " ", QUOTE, "a", QUOTE, ":", " ", "1", ",", "\n",
      " ", " ", QUOTE, "z", QUOTE, ":", " ", "9", "\n", "}">>

DefaultFormat == indent = <<" ", " ">> /\ prefix = <<>>

\* C3: with -s every object of the rendered value, at every depth, has its keys
\* in non-decreasing byte-wise order, and the rendered value is the input value
\* (each array with its elements in the input's order); {"z":9,"a":1} with the
\* default indent is rendered as the README shows, and written with one
\* newline after it.
SortKeysOrdersEveryObject ==
    /\ (pc = "encoded" /\ sortKeys) =>
          /\ KeysInOrder(outputBytes)
          /\ RendersJSON => ValueOf(outputBytes) = ValueOf(Current.text)
          /\ (Current.text = ExampleInput /\ ~compact /\ DefaultFormat) =>
                outputBytes = ExampleOutput
    /\ (pc = "loop" /\ sortKeys /\ ~compact /\ DefaultFormat /\ ~validate /\ count = 1
           /\ values[1].text = ExampleInput /\ ~HighlightEnabled /\ env.writeOK) =>
          out = ExampleOutput \o <<"\n">>

\* A value with an array and with an object whose keys the input has out of
\* order has been rendered with -s.
SortedAnUnorderedValue ==
    /\ pc = "encoded" /\ sortKeys
    /\ ~KeysInOrder(Current.text)
    /\ \E i \in 1..Len(Current.text) : Current.text[i] = "["
    /\ \E i \in 1..(Len(outputBytes) - 1) : outputBytes[i] = "{" /\ outputBytes[i + 1] # "}"

(***************************************************************************)
(* The order-preserving path                                               *)
(***************************************************************************)
\* compact(pretty(compact(V))) = compact(V) and compact(compact(V)) = compact(V)
\* for the value V the loop has decoded, pretty with the run's -indent and
\* -prefix.
CompactRoundTrip ==
    /\ Compact(Indent(Compact(raw).out, prefix, indent).out) = Compact(raw)
    /\ Compact(Compact(raw).out) = Compact(raw)

\* C5 as stated: on the order-preserving path the round trip holds for any
\* indent unit and line prefix.
CompactIdempotentAnyIndent ==
    (pc = "decoded" /\ ~sortKeys) => CompactRoundTrip

\* C5: on the order-preserving path the round trip holds for an indent unit
\* and a line prefix made of JSON white space (space, tab, newline, carriage
\* return) only.
CompactIdempotentWhiteIndent ==
    (pc = "decoded" /\ ~sortKeys /\ WhiteOnly(indent) /\ WhiteOnly(prefix)) =>
        CompactRoundTrip

\* A nested value written with white space has been decoded on a run with a tab
\* as indent unit: compacting changes it, and indenting changes it back.
DecodedSpacedNestedValue ==
    /\ pc = "decoded" /\ ~sortKeys /\ indent = <<"\t">> /\ prefix = <<" ">>
    /\ Compact(raw).ok /\ Compact(raw).out # raw
    /\ Indent(Compact(raw).out, prefix, indent).out # Compact(raw).out
    /\ Occurrences(raw, "{") >= 2

\* C6 as stated: on the order-preserving path, compact or pretty, the output has
\* the tokens of the input value, in the input's order and byte for byte; only
\* the white space between tokens differs.
TokensUnchanged ==
    (pc = "encoded" /\ ~sortKeys) => Tokens(outputBytes) = Tokens(raw)

\* C6: on the order-preserving path the output has the tokens of the input
\* value, in the input's order and byte for byte, in compact mode, and in
\* pretty mode when the indent unit and the line prefix are JSON white space.
TokensUnchangedWhiteIndent ==
    (pc = "encoded" /\ ~sortKeys /\ RendersJSON) => Tokens(outputBytes) = Tokens(raw)

\* A value with an escape in a string and white space around its tokens has
\* been rendered on the order-preserving path, to other bytes.
RenderedSpacedValue ==
    /\ pc = "encoded" /\ ~sortKeys /\ RendersJSON
    /\ outputBytes # raw
    /\ \E i \in 1..Len(raw) : raw[i] = BSLASH
    /\ \E i \in 1..(Len(raw) - 1) : isSpace(raw[i]) /\ raw[i + 1] = ":"

=============================================================================
